---- MODULE Spec2Model ----
(***************************************************************************)
(* A model of the header verifier (verification/src/header_verifier.rs),   *)
(* of Block::check_txs_root (core/src/block.rs) and of the chain RPC       *)
(* module (rpc/src/module/chain.rs).                                       *)
(*                                                                         *)
(* Block numbers are u64 in the source.  The model keeps the width as a    *)
(* parameter: numbers are NumberBits wide and U64_MAX == 2^NumberBits - 1  *)
(* stands for u64::MAX, so that parent.number + 1 overflows in the model   *)
(* exactly where it overflows in the source.                               *)
(***************************************************************************)
EXTENDS Integers, Sequences, FiniteSets, TLC

VARIABLES
    target,     \* the HeaderResolver handed to the verifiers: header, parent, calculate_difficulty
    env,        \* what the verifiers consult: PoW engine verdict, chain provider's median time, clock, build profile
    verdict,    \* the last verifier that ran, its result and the checks it evaluated
    block,      \* a core Block: header (txs_commit) and transactions
    check,      \* the result of the last Block::check_txs_root on block, if any
    snapshot,   \* the shared chain snapshot (Shared::snapshot)
    tx_pool,    \* the transaction pool behind tx_pool_controller, by proposal short id
    rpc         \* the last chain RPC call: method, arguments, result, what it consulted

hvars == <<target, env, verdict>>
bvars == <<block, check>>
rvars == <<snapshot, tx_pool, rpc>>
vars  == <<target, env, verdict, block, check, snapshot, tx_pool, rpc>>

----------------------------------------------------------------------------
(* Option<T> and Result<(), Error> *)

None == [some |-> FALSE]
Some(x) == [some |-> TRUE, v |-> x]

Ok == [tag |-> "Ok"]
Err(e) == [tag |-> "Err", error |-> e]
\* the call does not return: an arithmetic overflow with overflow checks compiled in
Panic == [tag |-> "Panic"]

----------------------------------------------------------------------------
(* Bounds *)

NumberBits == 2
U64_MAX == 2 ^ NumberBits - 1
BlockNumbers == 0 .. U64_MAX

BaseMedian == 1000000
BaseNow == 2000000
ALLOWED_FUTURE_BLOCKTIME == 15000

Difficulties == {1, 2}
ParentHashes == {"p1", "p2"}
Timestamps ==
    {BaseMedian - 1, BaseMedian, BaseMedian + 1,
     BaseNow + ALLOWED_FUTURE_BLOCKTIME - 1, BaseNow + ALLOWED_FUTURE_BLOCKTIME,
     BaseNow + ALLOWED_FUTURE_BLOCKTIME + 1}
\* the median of the parent's ancestors: unknown, in the past, or beyond the future limit
MedianTimes == {None, Some(BaseMedian), Some(BaseNow + ALLOWED_FUTURE_BLOCKTIME)}

Headers ==
    [number : BlockNumbers, timestamp : Timestamps,
     parent_hash : ParentHashes, difficulty : Difficulties]
\* of the parent header only the number is read
ParentHeaders == [number : BlockNumbers]

Targets ==
    [header : Headers,
     parent : {None} \cup {Some(p) : p \in ParentHeaders},
     calculate_difficulty : {None} \cup {Some(d) : d \in Difficulties}]

Envs ==
    [pow : BOOLEAN, median : MedianTimes, now : {BaseNow}, overflow_checks : BOOLEAN]

----------------------------------------------------------------------------
(* verification/src/header_verifier.rs *)

PowVerifier_verify(header, pow) ==
    IF pow THEN Ok ELSE Err([kind |-> "Pow", reason |-> "InvalidProof"])

\* parent.number() + 1 is a u64 addition: with overflow checks it panics at
\* u64::MAX, without them it wraps to 0.
NumberVerifier_verify(parent, header, overflow_checks) ==
    IF parent.number + 1 > U64_MAX /\ overflow_checks
    THEN Panic
    ELSE LET expected == (parent.number + 1) % (U64_MAX + 1)
         IN  IF header.number # expected
             THEN Err([kind |-> "Number", expected |-> expected, actual |-> header.number])
             ELSE Ok

UnknownParent(header) == Err([kind |-> "UnknownParent", hash |-> header.parent_hash])

TimestampVerifier_verify_NonStrict(median, header, now) ==
    IF ~median.some
    THEN UnknownParent(header)
    ELSE LET min == median.v
             max == now + ALLOWED_FUTURE_BLOCKTIME
         IN  IF header.timestamp < min
             THEN Err([kind |-> "Timestamp", reason |-> "BlockTimeTooEarly",
                       min |-> min, found |-> header.timestamp])
             ELSE IF header.timestamp > max
             THEN Err([kind |-> "Timestamp", reason |-> "BlockTimeTooNew",
                       max |-> max, found |-> header.timestamp])
             ELSE Ok

TimestampVerifier_verify(median, header, now) ==
    IF ~median.some
    THEN UnknownParent(header)
    ELSE LET min == median.v
             max == now + ALLOWED_FUTURE_BLOCKTIME
         IN  IF header.timestamp <= min
             THEN Err([kind |-> "Timestamp", reason |-> "BlockTimeTooEarly",
                       min |-> min, found |-> header.timestamp])
             ELSE IF header.timestamp > max
             THEN Err([kind |-> "Timestamp", reason |-> "BlockTimeTooNew",
                       max |-> max, found |-> header.timestamp])
             ELSE Ok

DifficultyVerifier_verify(resolver) ==
    IF ~resolver.calculate_difficulty.some
    THEN Err([kind |-> "Difficulty", reason |-> "AncestorNotFound"])
    ELSE LET expected == resolver.calculate_difficulty.v
             actual == resolver.header.difficulty
         IN  IF expected # actual
             THEN Err([kind |-> "Difficulty", reason |-> "MixMismatch",
                       expected |-> expected, actual |-> actual])
             ELSE Ok

\* One `?` of HeaderVerifier::verify: run the next check unless an earlier one
\* has already ended the call.  acc is [result, evaluated].
Then(acc, name, res) ==
    IF acc.result # Ok
    THEN acc
    ELSE [result |-> res, evaluated |-> Append(acc.evaluated, name)]

ParentResolution(t) ==
    IF t.parent.some THEN Ok ELSE UnknownParent(t.header)

\* the same checks with the number check moved in front of the PoW check
HeaderVerifier_verify_NumberFirst(t, e) ==
    LET s0 == [result |-> Ok, evaluated |-> <<>>]
        s1 == Then(s0, "Parent", ParentResolution(t))
        s2 == IF s1.result = Ok
              THEN Then(s1, "Number",
                        NumberVerifier_verify(t.parent.v, t.header, e.overflow_checks))
              ELSE s1
        s3 == Then(s2, "Pow", PowVerifier_verify(t.header, e.pow))
        s4 == Then(s3, "Timestamp", TimestampVerifier_verify(e.median, t.header, e.now))
        s5 == Then(s4, "Difficulty", DifficultyVerifier_verify(t))
    IN  s5

HeaderVerifier_verify(t, e) ==
    LET s0 == [result |-> Ok, evaluated |-> <<>>]
        s1 == Then(s0, "Pow", PowVerifier_verify(t.header, e.pow))
        s2 == Then(s1, "Parent", ParentResolution(t))
        s3 == IF s2.result = Ok
              THEN Then(s2, "Number",
                        NumberVerifier_verify(t.parent.v, t.header, e.overflow_checks))
              ELSE s2
        s4 == Then(s3, "Timestamp", TimestampVerifier_verify(e.median, t.header, e.now))
        s5 == Then(s4, "Difficulty", DifficultyVerifier_verify(t))
    IN  s5

----------------------------------------------------------------------------
(* H256 and the merkle root *)

\* A hash is a finite sequence of integers (its bytes).  The hash of a pair is
\* modelled without collisions: it determines both halves.
ZeroHash == <<>>
merge(l, r) == <<Len(l)>> \o l \o r

\* The root of the complete binary merkle tree over leaves: node i has the
\* children 2i+1 and 2i+2, the N leaves are the nodes N-1 .. 2N-2.
RECURSIVE CBMT_node(_, _)
CBMT_node(leaves, i) ==
    IF i >= Len(leaves) - 1
    THEN leaves[i - (Len(leaves) - 1) + 1]
    ELSE merge(CBMT_node(leaves, 2 * i + 1), CBMT_node(leaves, 2 * i + 2))

merkle_root(leaves) ==
    IF Len(leaves) = 0 THEN ZeroHash ELSE CBMT_node(leaves, 0)

----------------------------------------------------------------------------
(* core/src/block.rs *)

MaxBlockTxs == 3
TxIds == {1, 2}

RECURSIVE SeqsUpTo(_, _)
SeqsUpTo(S, n) ==
    IF n = 0 THEN {<<>>}
    ELSE LET shorter == SeqsUpTo(S, n - 1)
         IN  shorter \cup {Append(q, x) : q \in {r \in shorter : Len(r) = n - 1}, x \in S}

CoreTransactions == [id : TxIds]
\* Transaction::hash: the digest of the transaction's content
Transaction_hash(t) == <<t.id>>

\* transactions.iter().map(|t| t.hash()).collect()
TxsHash(txs) == [i \in 1 .. Len(txs) |-> Transaction_hash(txs[i])]

\* the commitments a header can carry: the root of some transaction list
TxsCommits == {merkle_root(TxsHash(q)) : q \in SeqsUpTo(CoreTransactions, MaxBlockTxs)}

CoreBlocks ==
    [header : [txs_commit : TxsCommits],
     transactions : SeqsUpTo(CoreTransactions, MaxBlockTxs)]

\* #[derive(Default)]
DefaultBlock == [header |-> [txs_commit |-> ZeroHash], transactions |-> <<>>]

InvalidTransactionsRoot(expected, actual) ==
    Err([kind |-> "InvalidTransactionsRoot", expected |-> expected, actual |-> actual])

\* the error built with its two arguments exchanged
Block_check_txs_root_Swapped(b) ==
    LET txs_hash == TxsHash(b.transactions)
        txs_root == merkle_root(txs_hash)
    IN  IF txs_root = b.header.txs_commit
        THEN Ok
        ELSE InvalidTransactionsRoot(txs_root, b.header.txs_commit)

Block_check_txs_root(b) ==
    LET txs_hash == TxsHash(b.transactions)
        txs_root == merkle_root(txs_hash)
    IN  IF txs_root = b.header.txs_commit
        THEN Ok
        ELSE InvalidTransactionsRoot(b.header.txs_commit, txs_root)

----------------------------------------------------------------------------
(* The chain the RPC module reads: blocks, transactions, cells *)

\* the highest block number a chain reaches
MaxTip == 3
\* Capacity is a u64; MaxCapacity stands for u64::MAX
MaxCapacity == 7

\* Two competing branches fork at genesis.  A block hash is <<branch, number>>.
Branches == {1, 2}
BlockHash(br, n) == IF n = 0 THEN <<1, 0>> ELSE <<br, n>>
GenesisHash == BlockHash(1, 0)
UnknownBlockHash == <<9, 9>>

\* A transaction hash is <<n, j, r>>.  The block at number n carries its
\* cellbase <<n, 0, branch>> and the transactions <<n, j, 0>>, j in 1 .. n, which
\* either branch may commit.
CellOutput(lock, capacity) == [lock |-> lock, capacity |-> capacity, output_data_len |-> lock]
Cellbase(br, n) ==
    [hash |-> <<n, 0, br>>, cellbase |-> TRUE, outputs |-> <<CellOutput(1, 1)>>]
RegularTx(n, j) ==
    [hash |-> <<n, j, 0>>, cellbase |-> FALSE,
     outputs |-> IF j % 2 = 1
                 THEN <<CellOutput(1, 1), CellOutput(1, 2)>>
                 ELSE <<CellOutput(2, 1), CellOutput(1, 2)>>]
\* a transaction that no block carries; r # 0 gives it the short id of <<n, j, 0>>
PoolOnlyTx(h) == [hash |-> h, cellbase |-> FALSE, outputs |-> <<CellOutput(2, 1)>>]

\* branch 1 carries the transactions in the order 1 .. n, branch 2 in the order n .. 1
BlockTransactions(br, n) ==
    <<Cellbase(br, n)>> \o
    [k \in 1 .. n |-> RegularTx(n, IF br = 1 THEN k ELSE n + 1 - k)]

\* the fees of the non-cellbase transactions, as block_ext records them
BlockTxsFees(br, n) == [k \in 1 .. n |-> IF br = 1 THEN 1 ELSE MaxCapacity]

AllBlockHashes == {BlockHash(br, n) : br \in Branches, n \in 0 .. MaxTip}

\* every block there is, by hash
BlockTable ==
    [h \in AllBlockHashes |->
        [header |-> [hash |-> h, number |-> h[2],
                     parent_hash |-> IF h[2] = 0 THEN ZeroHash ELSE BlockHash(h[1], h[2] - 1)],
         transactions |-> BlockTransactions(h[1], h[2])]]
BlockOf(h) == BlockTable[h]


\* the main chain of branch br up to number t, as the index number -> hash
ChainOf(br, t) == [k \in 1 .. t + 1 |-> BlockHash(br, k - 1)]
Chains == {ChainOf(br, t) : br \in Branches, t \in 0 .. MaxTip}

OutPoint(tx_hash, index) == [tx_hash |-> tx_hash, index |-> index]

----------------------------------------------------------------------------
(* Snapshot: the store lookups the RPC module makes *)

\* What the store fails to return, for the lookups that return an Option or a
\* Result: "no_block" loses the body and header of the main-chain block 1, the
\* others make one lookup of get_block_economic_state fail.
StoreFaults ==
    {"none", "no_block", "no_epoch_index", "no_epoch_ext", "block_reward_err",
     "secondary_issuance_err", "no_block_ext", "reward_calculator_err"}

MaxDelay == 2

GenesisSnapshot ==
    [chain |-> ChainOf(1, 0), dead |-> {}, fault |-> "none",
     finalization_delay_length |-> 1]

Snapshot_tip_number(s) == Len(s.chain) - 1

Snapshot_get_block_hash(s, number) ==
    IF number <= Snapshot_tip_number(s) THEN Some(s.chain[number + 1]) ELSE None

Snapshot_get_block_number(s, hash) ==
    IF \E k \in 1 .. Len(s.chain) : s.chain[k] = hash
    THEN Some((CHOOSE k \in 1 .. Len(s.chain) : s.chain[k] = hash) - 1)
    ELSE None

\* every block seen is stored, main chain or not, unless the store lost it
Snapshot_get_block(s, hash) ==
    IF /\ hash \in AllBlockHashes
       /\ ~(s.fault = "no_block" /\ Len(s.chain) >= 2 /\ hash = s.chain[2])
    THEN Some(BlockOf(hash))
    ELSE None

Snapshot_get_block_header(s, hash) ==
    IF Snapshot_get_block(s, hash).some
    THEN Some(Snapshot_get_block(s, hash).v.header)
    ELSE None

\* the positions <<k, i>> of the main chain at which a transaction with this hash sits
TxPositions(s, tx_hash) ==
    UNION {{<<k, i>> : i \in {j \in 1 .. Len(BlockOf(s.chain[k]).transactions) :
                                  BlockOf(s.chain[k]).transactions[j].hash = tx_hash}} :
           k \in 1 .. Len(s.chain)}

TxPosition(s, tx_hash) ==
    LET ps == TxPositions(s, tx_hash)
    IN  IF ps = {} THEN None ELSE Some(CHOOSE q \in ps : TRUE)

Snapshot_get_transaction_info(s, tx_hash) ==
    LET p == TxPosition(s, tx_hash)
    IN  IF ~p.some
        THEN None
        ELSE Some([block_hash |-> s.chain[p.v[1]], index |-> p.v[2] - 1])

Snapshot_get_transaction(s, tx_hash) ==
    LET p == TxPosition(s, tx_hash)
    IN  IF ~p.some
        THEN None
        ELSE Some([tx |-> BlockOf(s.chain[p.v[1]]).transactions[p.v[2]],
                   block_hash |-> s.chain[p.v[1]]])

\* The cell set keeps a TransactionMeta for the main-chain transactions that
\* still have a live output.
Snapshot_get_tx_meta(s, tx_hash) ==
    LET committed == Snapshot_get_transaction(s, tx_hash)
    IN  IF ~committed.some
        THEN None
        ELSE LET tx == committed.v.tx
                 bits == [i \in 1 .. Len(tx.outputs) |-> OutPoint(tx_hash, i - 1) \in s.dead]
             IN  IF \A i \in 1 .. Len(bits) : bits[i]
                 THEN None
                 ELSE Some([dead_cell |-> bits, cellbase |-> tx.cellbase])

TransactionMeta_is_dead(meta, i) ==
    IF i < Len(meta.dead_cell) THEN Some(meta.dead_cell[i + 1]) ELSE None

----------------------------------------------------------------------------
(* The chain writer and the transaction pool, which publish new states *)

NoCall == [method |-> "none"]

ChainBranch(s) == IF Len(s.chain) = 1 THEN Branches ELSE {s.chain[2][1]}

\* a block is attached to the tip and the new snapshot is stored
AttachBlock ==
    /\ Snapshot_tip_number(snapshot) < MaxTip
    /\ \E br \in ChainBranch(snapshot) :
          snapshot' = [snapshot EXCEPT
                          !.chain = Append(@, BlockHash(br, Snapshot_tip_number(snapshot) + 1))]
    /\ rpc' = NoCall
    /\ UNCHANGED <<tx_pool, hvars, bvars>>

\* the other branch becomes the main chain
Reorg ==
    /\ Len(snapshot.chain) >= 2
    /\ \E c \in Chains :
          /\ Len(c) >= Len(snapshot.chain)
          /\ c[2] # snapshot.chain[2]
          /\ snapshot' = [snapshot EXCEPT !.chain = c, !.dead = {}]
    /\ rpc' = NoCall
    /\ UNCHANGED <<tx_pool, hvars, bvars>>

\* the live out-points of the transactions, cellbase apart, of the main-chain block 1
SpendableCells(s) ==
    IF Len(s.chain) < 2
    THEN {}
    ELSE LET txs == BlockOf(s.chain[2]).transactions
         IN  {OutPoint(txs[k].hash, i - 1) : k \in 2 .. Len(txs), i \in 1 .. 2} \ s.dead

\* a later block spends a cell of block 1
SpendCell ==
    /\ \E op \in SpendableCells(snapshot) :
          /\ op.index < Len(Snapshot_get_transaction(snapshot, op.tx_hash).v.tx.outputs)
          /\ snapshot' = [snapshot EXCEPT !.dead = @ \cup {op}]
    /\ rpc' = NoCall
    /\ UNCHANGED <<tx_pool, hvars, bvars>>

\* ProposalShortId::from_tx_hash: the leading bytes of the hash
ProposalShortId_from_tx_hash(hash) == SubSeq(hash, 1, 2)

\* the short ids the pool is watched at, and the transactions that may sit at them
PoolIds == {<<1, 1>>, <<9, 9>>}
PoolTxsAt(id) ==
    IF id = <<1, 1>> THEN {RegularTx(1, 1), PoolOnlyTx(<<1, 1, 9>>)}
    ELSE {PoolOnlyTx(<<9, 9, 0>>)}
PoolEntries(id) ==
    {None} \cup {Some([proposed |-> b, tx |-> t]) : b \in BOOLEAN, t \in PoolTxsAt(id)}
PoolStates == {f \in [PoolIds -> UNION {PoolEntries(id) : id \in PoolIds}] :
                  \A id \in PoolIds : f[id] \in PoolEntries(id)}
EmptyPool == [id \in PoolIds |-> None]

\* the pool admits, proposes or drops transactions
TxPoolUpdate ==
    /\ \E f \in PoolStates : f # tx_pool /\ tx_pool' = f
    /\ rpc' = NoCall
    /\ UNCHANGED <<snapshot, hvars, bvars>>

\* TxPoolController::fetch_tx_for_rpc: the request may fail to be sent
TxPool_fetch_tx_for_rpc(pool, id, sent) ==
    IF ~sent
    THEN Err([kind |-> "SendError"])
    ELSE [tag |-> "Ok", v |-> IF id \in DOMAIN pool THEN pool[id] ELSE None]

----------------------------------------------------------------------------
(* rpc/src/module/chain.rs *)

PAGE_SIZE == 100

RpcOk(v) == [tag |-> "Ok", v |-> v]
RpcErr(code, message) == [tag |-> "Err", code |-> code, message |-> message]

TransactionWithStatus(tx, status, block_hash) ==
    [transaction |-> tx, tx_status |-> [status |-> status, block_hash |-> block_hash]]
with_proposed(tx) == TransactionWithStatus(tx, "proposed", None)
with_pending(tx) == TransactionWithStatus(tx, "pending", None)
with_committed(tx, block_hash) == TransactionWithStatus(tx, "committed", Some(block_hash))

\* the snapshot asked before the pool
ChainRpc_get_transaction_SnapshotFirst(s, pool, hash, sent) ==
    LET committed == Snapshot_get_transaction(s, hash)
        fetch == TxPool_fetch_tx_for_rpc(pool, ProposalShortId_from_tx_hash(hash), sent)
    IN  IF committed.some
        THEN [result |-> RpcOk(Some(with_committed(committed.v.tx, committed.v.block_hash))),
              reads |-> <<"snapshot">>]
        ELSE IF fetch.tag = "Err"
        THEN [result |-> RpcErr("CkbInternalError", "SendError"),
              reads |-> <<"snapshot", "tx_pool">>]
        ELSE [result |-> RpcOk(IF fetch.v.some
                               THEN Some(IF fetch.v.v.proposed
                                         THEN with_proposed(fetch.v.v.tx)
                                         ELSE with_pending(fetch.v.v.tx))
                               ELSE None),
              reads |-> <<"snapshot", "tx_pool">>]

\* the proposed flag read the wrong way round
ChainRpc_get_transaction_FlagInverted(s, pool, hash, sent) ==
    LET id == ProposalShortId_from_tx_hash(hash)
        fetch_tx_for_rpc == TxPool_fetch_tx_for_rpc(pool, id, sent)
    IN  IF fetch_tx_for_rpc.tag = "Err"
        THEN [result |-> RpcErr("CkbInternalError", fetch_tx_for_rpc.error.kind),
              reads |-> <<"tx_pool">>]
        ELSE IF fetch_tx_for_rpc.v.some
        THEN [result |-> RpcOk(Some(IF ~fetch_tx_for_rpc.v.v.proposed
                                    THEN with_proposed(fetch_tx_for_rpc.v.v.tx)
                                    ELSE with_pending(fetch_tx_for_rpc.v.v.tx))),
              reads |-> <<"tx_pool">>]
        ELSE LET committed == Snapshot_get_transaction(s, hash)
             IN  [result |-> RpcOk(IF committed.some
                                   THEN Some(with_committed(committed.v.tx,
                                                            committed.v.block_hash))
                                   ELSE None),
                  reads |-> <<"tx_pool", "snapshot">>]

ChainRpc_get_transaction(s, pool, hash, sent) ==
    LET id == ProposalShortId_from_tx_hash(hash)
        fetch_tx_for_rpc == TxPool_fetch_tx_for_rpc(pool, id, sent)
    IN  IF fetch_tx_for_rpc.tag = "Err"
        THEN [result |-> RpcErr("CkbInternalError", fetch_tx_for_rpc.error.kind),
              reads |-> <<"tx_pool">>]
        ELSE IF fetch_tx_for_rpc.v.some
        THEN [result |-> RpcOk(Some(IF fetch_tx_for_rpc.v.v.proposed
                                    THEN with_proposed(fetch_tx_for_rpc.v.v.tx)
                                    ELSE with_pending(fetch_tx_for_rpc.v.v.tx))),
              reads |-> <<"tx_pool">>]
        ELSE LET committed == Snapshot_get_transaction(s, hash)
             IN  [result |-> RpcOk(IF committed.some
                                   THEN Some(with_committed(committed.v.tx,
                                                            committed.v.block_hash))
                                   ELSE None),
                  reads |-> <<"tx_pool", "snapshot">>]

calc_lock_hash(output) == <<output.lock>>

CellOutputWithOutPoint(tx, i, output, block_hash, meta) ==
    [out_point |-> OutPoint(tx.hash, i), block_hash |-> block_hash,
     capacity |-> output.capacity, lock |-> output.lock,
     output_data_len |-> output.output_data_len, cellbase |-> meta.cellbase]

\* the outputs pushed whatever their dead bit says
RECURSIVE ScanOutputs_IgnoringDead(_, _, _, _, _, _)
ScanOutputs_IgnoringDead(tx, meta, block_hash, lock_hash, i, result) ==
    IF i >= Len(tx.outputs)
    THEN result
    ELSE LET output == tx.outputs[i + 1]
         IN  ScanOutputs_IgnoringDead(tx, meta, block_hash, lock_hash, i + 1,
                 IF calc_lock_hash(output) = lock_hash
                 THEN Append(result, CellOutputWithOutPoint(tx, i, output, block_hash, meta))
                 ELSE result)

\* for (i, output) in transaction.outputs().into_iter().enumerate()
RECURSIVE ScanOutputs(_, _, _, _, _, _)
ScanOutputs(tx, meta, block_hash, lock_hash, i, result) ==
    IF i >= Len(tx.outputs)
    THEN result
    ELSE LET output == tx.outputs[i + 1]
         IN  ScanOutputs(tx, meta, block_hash, lock_hash, i + 1,
                 IF /\ calc_lock_hash(output) = lock_hash
                    /\ TransactionMeta_is_dead(meta, i) = Some(FALSE)
                 THEN Append(result, CellOutputWithOutPoint(tx, i, output, block_hash, meta))
                 ELSE result)

\* for transaction in block.transactions()
RECURSIVE ScanTransactions(_, _, _, _, _, _)
ScanTransactions(s, txs, k, block_hash, lock_hash, result) ==
    IF k > Len(txs)
    THEN result
    ELSE LET transaction_meta == Snapshot_get_tx_meta(s, txs[k].hash)
         IN  ScanTransactions(s, txs, k + 1, block_hash, lock_hash,
                 IF transaction_meta.some
                 THEN ScanOutputs(txs[k], transaction_meta.v, block_hash, lock_hash, 0, result)
                 ELSE result)

\* for block_number in from..=to; reads lists the block numbers looked up
RECURSIVE ScanBlocks(_, _, _, _, _, _)
ScanBlocks(s, lock_hash, block_number, to, result, reads) ==
    IF block_number > to
    THEN [result |-> RpcOk(result), reads |-> reads]
    ELSE LET block_hash == Snapshot_get_block_hash(s, block_number)
             looked == Append(reads, block_number)
         IN  IF ~block_hash.some
             THEN [result |-> RpcOk(result), reads |-> looked]
             ELSE LET blk == Snapshot_get_block(s, block_hash.v)
                  IN  IF ~blk.some
                      THEN [result |-> RpcErr("ChainIndexIsInconsistent",
                                              "block is not in the database"),
                            reads |-> looked]
                      ELSE ScanBlocks(s, lock_hash, block_number + 1, to,
                               ScanTransactions(s, blk.v.transactions, 1, block_hash.v,
                                                lock_hash, result),
                               looked)

\* the page limit tested with >= instead of >
ChainRpc_get_cells_by_lock_hash_PageOffByOne(s, lock_hash, from, to) ==
    IF from > to
    THEN [result |-> RpcErr("InvalidParams", "Expected from <= to"), reads |-> <<>>]
    ELSE IF to - from >= PAGE_SIZE
    THEN [result |-> RpcErr("InvalidParams", "Expected to - from <= PAGE_SIZE"),
          reads |-> <<>>]
    ELSE ScanBlocks(s, lock_hash, from, to, <<>>, <<>>)

ChainRpc_get_cells_by_lock_hash(s, lock_hash, from, to) ==
    IF from > to
    THEN [result |-> RpcErr("InvalidParams", "Expected from <= to"), reads |-> <<>>]
    ELSE IF to - from > PAGE_SIZE
    THEN [result |-> RpcErr("InvalidParams", "Expected to - from <= PAGE_SIZE"),
          reads |-> <<>>]
    ELSE ScanBlocks(s, lock_hash, from, to, <<>>, <<>>)

\* Capacity::safe_add: checked u64 addition
Capacity_safe_add(a, b) ==
    IF a + b > MaxCapacity THEN Err([kind |-> "Overflow"]) ELSE [tag |-> "Ok", v |-> a + b]

\* txs_fees.iter().try_fold(Capacity::zero(), |acc, tx_fee| acc.safe_add(*tx_fee))
RECURSIVE try_fold_safe_add(_, _, _)
try_fold_safe_add(txs_fees, k, acc) ==
    IF k > Len(txs_fees)
    THEN [tag |-> "Ok", v |-> acc]
    ELSE LET sum == Capacity_safe_add(acc, txs_fees[k])
         IN  IF sum.tag = "Err" THEN sum ELSE try_fold_safe_add(txs_fees, k + 1, sum.v)

\* the epoch and reward lookups of the store and of RewardCalculator; there is
\* one epoch, and each lookup fails when the store says so
EpochIndex == <<0>>
Snapshot_get_block_epoch_index(s, hash) ==
    IF s.fault = "no_epoch_index" \/ hash \notin AllBlockHashes THEN None ELSE Some(EpochIndex)
Snapshot_get_epoch_ext(s, index) ==
    IF s.fault = "no_epoch_ext" \/ index # EpochIndex
    THEN None
    ELSE Some([number |-> 0, start_number |-> 0, base_block_reward |-> 2,
               failing |-> s.fault])
EpochExt_block_reward(epoch_ext, number) ==
    IF epoch_ext.failing = "block_reward_err"
    THEN Err([kind |-> "Overflow"])
    ELSE [tag |-> "Ok", v |-> epoch_ext.base_block_reward]
EpochExt_secondary_block_issuance(epoch_ext, number, secondary_epoch_reward) ==
    IF epoch_ext.failing = "secondary_issuance_err"
    THEN Err([kind |-> "Overflow"])
    ELSE [tag |-> "Ok", v |-> secondary_epoch_reward]
Consensus_secondary_epoch_reward == 1
Snapshot_get_block_ext(s, hash) ==
    IF s.fault = "no_block_ext" \/ hash \notin AllBlockHashes
    THEN None
    ELSE Some([txs_fees |-> BlockTxsFees(hash[1], hash[2])])
RewardCalculator_block_reward_for_target(s, header) ==
    IF s.fault = "reward_calculator_err"
    THEN Err([kind |-> "DaoError"])
    ELSE [tag |-> "Ok",
          v |-> [primary |-> 2, secondary |-> 1, committed |-> 0, proposal |-> 0,
                 total |-> 3, target |-> header.number]]

\* finalized_at taken to be the hash asked for
ChainRpc_get_block_economic_state_OwnHash(s, hash) ==
    LET number == Snapshot_get_block_number(s, hash)
    IN  IF ~number.some
        THEN RpcOk(None)
        ELSE
        LET block_number == number.v
            delay_length == s.finalization_delay_length
            finalized_at_number == block_number + delay_length
        IN  IF block_number = 0 \/ Snapshot_tip_number(s) < finalized_at_number
            THEN RpcOk(None)
            ELSE
            LET finalized_at == Snapshot_get_block_hash(s, finalized_at_number)
                epoch_index == Snapshot_get_block_epoch_index(s, hash)
                epoch_ext == IF epoch_index.some
                             THEN Snapshot_get_epoch_ext(s, epoch_index.v)
                             ELSE None
                primary == EpochExt_block_reward(epoch_ext.v, block_number)
                secondary == EpochExt_secondary_block_issuance(
                                 epoch_ext.v, block_number, Consensus_secondary_epoch_reward)
                block_ext == Snapshot_get_block_ext(s, hash)
                txs_fee == try_fold_safe_add(block_ext.v.txs_fees, 1, 0)
                header == Snapshot_get_block_header(s, hash)
                reward == RewardCalculator_block_reward_for_target(s, header.v)
            IN  IF ~finalized_at.some THEN RpcOk(None)
                ELSE IF ~epoch_index.some \/ ~epoch_ext.some THEN RpcOk(None)
                ELSE IF primary.tag = "Err" THEN RpcOk(None)
                ELSE IF secondary.tag = "Err" THEN RpcOk(None)
                ELSE IF ~block_ext.some THEN RpcOk(None)
                ELSE IF txs_fee.tag = "Err" THEN RpcOk(None)
                ELSE IF ~header.some THEN RpcOk(None)
                ELSE IF reward.tag = "Err" THEN RpcOk(None)
                ELSE RpcOk(Some([issuance |-> [primary |-> primary.v,
                                               secondary |-> secondary.v],
                                 miner_reward |-> reward.v,
                                 txs_fee |-> txs_fee.v,
                                 finalized_at |-> hash]))

\* block_number + delay_length is a u64 addition of a block number of the chain
\* and a consensus parameter; both are far from u64::MAX.
ChainRpc_get_block_economic_state(s, hash) ==
    LET number == Snapshot_get_block_number(s, hash)
    IN  IF ~number.some
        THEN RpcOk(None)
        ELSE
        LET block_number == number.v
            delay_length == s.finalization_delay_length
            finalized_at_number == block_number + delay_length
        IN  IF block_number = 0 \/ Snapshot_tip_number(s) < finalized_at_number
            THEN RpcOk(None)
            ELSE
            LET finalized_at == Snapshot_get_block_hash(s, finalized_at_number)
                epoch_index == Snapshot_get_block_epoch_index(s, hash)
                epoch_ext == IF epoch_index.some
                             THEN Snapshot_get_epoch_ext(s, epoch_index.v)
                             ELSE None
                primary == EpochExt_block_reward(epoch_ext.v, block_number)
                secondary == EpochExt_secondary_block_issuance(
                                 epoch_ext.v, block_number, Consensus_secondary_epoch_reward)
                block_ext == Snapshot_get_block_ext(s, hash)
                txs_fee == try_fold_safe_add(block_ext.v.txs_fees, 1, 0)
                header == Snapshot_get_block_header(s, hash)
                reward == RewardCalculator_block_reward_for_target(s, header.v)
            IN  IF ~finalized_at.some THEN RpcOk(None)
                ELSE IF ~epoch_index.some \/ ~epoch_ext.some THEN RpcOk(None)
                ELSE IF primary.tag = "Err" THEN RpcOk(None)
                ELSE IF secondary.tag = "Err" THEN RpcOk(None)
                ELSE IF ~block_ext.some THEN RpcOk(None)
                ELSE IF txs_fee.tag = "Err" THEN RpcOk(None)
                ELSE IF ~header.some THEN RpcOk(None)
                ELSE IF reward.tag = "Err" THEN RpcOk(None)
                ELSE RpcOk(Some([issuance |-> [primary |-> primary.v,
                                               secondary |-> secondary.v],
                                 miner_reward |-> reward.v,
                                 txs_fee |-> txs_fee.v,
                                 finalized_at |-> finalized_at.v]))

\* CBMT::build_merkle_proof: the tree indices of the leaves, greatest first, are
\* peeled upward; a sibling that is queued too is paired, any other sibling is a lemma
RECURSIVE SortDescending(_)
SortDescending(S) ==
    IF S = {} THEN <<>>
    ELSE LET m == CHOOSE x \in S : \A y \in S : y <= x
         IN  <<m>> \o SortDescending(S \ {m})

RECURSIVE CBMT_peel(_, _, _)
CBMT_peel(leaves, queue, lemmas) ==
    IF queue = <<>> \/ Head(queue) = 0
    THEN lemmas
    ELSE LET index == Head(queue)
             rest == Tail(queue)
             sibling == IF index % 2 = 1 THEN index + 1 ELSE index - 1
             parent == (index - 1) \div 2
             paired == rest # <<>> /\ Head(rest) = sibling
             left == IF paired THEN Tail(rest) ELSE rest
         IN  CBMT_peel(leaves,
                       IF parent # 0 THEN Append(left, parent) ELSE left,
                       IF paired THEN lemmas ELSE Append(lemmas, CBMT_node(leaves, sibling)))

CBMT_build_merkle_proof(leaves, indices) ==
    LET leaves_count == Len(leaves)
        tree_indices == SortDescending({leaves_count + indices[k] - 1 : k \in 1 .. Len(indices)})
    IN  IF leaves_count = 0 \/ indices = <<>>
        THEN None
        ELSE IF tree_indices[1] >= 2 * leaves_count - 1
        THEN None
        ELSE Some([indices |-> tree_indices,
                   lemmas |-> CBMT_peel(leaves, tree_indices, <<>>)])

Transaction_witness_hash(tx) == <<0>> \o tx.hash
Block_calc_witnesses_root(b) ==
    merkle_root([k \in 1 .. Len(b.transactions) |-> Transaction_witness_hash(b.transactions[k])])
Block_tx_hashes(b) == [k \in 1 .. Len(b.transactions) |-> b.transactions[k].hash]

\* the orders in which a HashSet holding S may be iterated
Orders(S) ==
    {q \in [1 .. Cardinality(S) -> S] : \A x \in S : \E k \in 1 .. Cardinality(S) : q[k] = x}

\* the loop over tx_hashes: the block of the first transaction and the indices
\* seen so far, or the error the loop returns with
RECURSIVE CollectIndices(_, _, _, _, _)
CollectIndices(s, tx_hashes, k, retrieved_block_hash, tx_indices) ==
    IF k > Len(tx_hashes)
    THEN [tag |-> "Ok", retrieved_block_hash |-> retrieved_block_hash,
          tx_indices |-> tx_indices]
    ELSE LET tx_info == Snapshot_get_transaction_info(s, tx_hashes[k])
         IN  IF ~tx_info.some
             THEN RpcErr("InvalidParams", "Transaction not yet in block")
             ELSE IF retrieved_block_hash.some /\ Some(tx_info.v.block_hash) # retrieved_block_hash
             THEN RpcErr("InvalidParams", "Not all transactions found in retrieved block")
             ELSE IF tx_info.v.index \in tx_indices
             THEN RpcErr("InvalidParams", "Duplicated tx_hash")
             ELSE CollectIndices(s, tx_hashes, k + 1, Some(tx_info.v.block_hash),
                                 tx_indices \cup {tx_info.v.index})

\* witnesses_root taken from the transaction hashes instead of the witness hashes
TransactionProof_TxRoot(b, proof) ==
    [block_hash |-> b.header.hash,
     witnesses_root |-> merkle_root(Block_tx_hashes(b)),
     proof |-> proof]

TransactionProof(b, proof) ==
    [block_hash |-> b.header.hash,
     witnesses_root |-> Block_calc_witnesses_root(b),
     proof |-> proof]

\* the block hash the caller specifies is not compared
ChainRpc_get_transaction_proof_AnyBlock(s, tx_hashes, block_hash, order) ==
    IF tx_hashes = <<>>
    THEN [result |-> RpcErr("InvalidParams", "Empty transaction hashes"), handed |-> None]
    ELSE
    LET collected == CollectIndices(s, tx_hashes, 1, None, {})
    IN  IF collected.tag = "Err"
        THEN [result |-> collected, handed |-> None]
        ELSE
        LET retrieved_block_hash == collected.retrieved_block_hash.v
            found == Snapshot_get_block(s, retrieved_block_hash)
        IN  IF ~found.some
            THEN [result |-> RpcErr("ChainIndexIsInconsistent",
                                    "block is not in the database"),
                  handed |-> None]
            ELSE LET proof == CBMT_build_merkle_proof(Block_tx_hashes(found.v), order)
                 IN  IF ~proof.some
                     THEN [result |-> Panic, handed |-> Some(order)]
                     ELSE [result |-> RpcOk(TransactionProof(found.v, proof.v)),
                           handed |-> Some(order)]

\* order is the order in which the HashSet of indices is iterated when it is
\* collected into the vector handed to the builder
ChainRpc_get_transaction_proof(s, tx_hashes, block_hash, order) ==
    IF tx_hashes = <<>>
    THEN [result |-> RpcErr("InvalidParams", "Empty transaction hashes"), handed |-> None]
    ELSE
    LET collected == CollectIndices(s, tx_hashes, 1, None, {})
    IN  IF collected.tag = "Err"
        THEN [result |-> collected, handed |-> None]
        ELSE
        LET retrieved_block_hash == collected.retrieved_block_hash.v
            found == Snapshot_get_block(s, retrieved_block_hash)
        IN  IF block_hash.some /\ retrieved_block_hash # block_hash.v
            THEN [result |-> RpcErr("InvalidParams",
                                    "Not all transactions found in specified block"),
                  handed |-> None]
            ELSE IF ~found.some
            THEN [result |-> RpcErr("ChainIndexIsInconsistent",
                                    "block is not in the database"),
                  handed |-> None]
            ELSE LET proof == CBMT_build_merkle_proof(Block_tx_hashes(found.v), order)
                 IN  IF ~proof.some
                     THEN [result |-> Panic, handed |-> Some(order)]
                     ELSE [result |-> RpcOk(TransactionProof(found.v, proof.v)),
                           handed |-> Some(order)]

\* the orders the call may hand the collected indices in; one, of no
\* consequence, when the loop returns with an error
HandedOrders(s, tx_hashes) ==
    LET collected == CollectIndices(s, tx_hashes, 1, None, {})
    IN  IF collected.tag = "Err" THEN {<<>>} ELSE Orders(collected.tx_indices)

\* the header's transactions_root of a block in the database: the root over the
\* root of the transaction hashes and the root of the witness hashes
Block_transactions_root(b) ==
    merkle_root(<<merkle_root(Block_tx_hashes(b)), Block_calc_witnesses_root(b)>>)

\* CBMT::retrieve_leaves: the leaves at the tree indices of the proof, in the
\* order of the proof, when every index is the tree index of a leaf
CBMT_retrieve_leaves(leaves, proof) ==
    LET leaves_count == Len(leaves)
    IN  IF leaves_count = 0
        THEN None
        ELSE IF \A k \in 1 .. Len(proof.indices) :
                    /\ proof.indices[k] >= leaves_count - 1
                    /\ proof.indices[k] < 2 * leaves_count - 1
        THEN Some([k \in 1 .. Len(proof.indices) |->
                      leaves[proof.indices[k] + 1 - leaves_count + 1]])
        ELSE None

\* the pairs (index, node) in descending order of index, equal indices in their order
RECURSIVE SortPairsDescending(_)
SortPairsDescending(q) ==
    IF q = <<>> THEN <<>>
    ELSE LET k == CHOOSE i \in 1 .. Len(q) :
                     /\ \A j \in 1 .. Len(q) : q[j].index <= q[i].index
                     /\ \A j \in 1 .. i - 1 : q[j].index < q[i].index
         IN  <<q[k]>> \o SortPairsDescending(SubSeq(q, 1, k - 1) \o SubSeq(q, k + 1, Len(q)))

\* MerkleProof::root, the loop: the queued nodes are merged upward with a queued
\* sibling or with the next lemma; the root counts when nothing is left over
RECURSIVE MerkleProof_root_peel(_, _)
MerkleProof_root_peel(queue, lemmas) ==
    IF queue = <<>>
    THEN None
    ELSE LET index == Head(queue).index
             node == Head(queue).node
             rest == Tail(queue)
             sibling_index == IF index % 2 = 1 THEN index + 1 ELSE index - 1
             paired == rest # <<>> /\ Head(rest).index = sibling_index
         IN  IF index = 0
             THEN IF lemmas = <<>> /\ rest = <<>> THEN Some(node) ELSE None
             ELSE IF ~paired /\ lemmas = <<>>
             THEN MerkleProof_root_peel(rest, lemmas)
             ELSE LET sibling == IF paired THEN Head(rest).node ELSE Head(lemmas)
                      parent_node == IF index % 2 = 1 THEN merge(node, sibling)
                                                      ELSE merge(sibling, node)
                  IN  MerkleProof_root_peel(
                          Append(IF paired THEN Tail(rest) ELSE rest,
                                 [index |-> (index - 1) \div 2, node |-> parent_node]),
                          IF paired THEN lemmas ELSE Tail(lemmas))

MerkleProof_root(proof, leaves) ==
    IF Len(leaves) # Len(proof.indices) \/ leaves = <<>>
    THEN None
    ELSE MerkleProof_root_peel(
             SortPairsDescending([k \in 1 .. Len(leaves) |->
                                     [index |-> proof.indices[k], node |-> leaves[k]]]),
             proof.lemmas)

\* the reconstructed root compared with the header's root without the witnesses root
ChainRpc_verify_transaction_proof_NoWitnesses(s, tx_proof) ==
    LET found == Snapshot_get_block(s, tx_proof.block_hash)
    IN  IF ~found.some
        THEN RpcErr("InvalidParams", "Cannot find block")
        ELSE
        LET tx_hashes == CBMT_retrieve_leaves(Block_tx_hashes(found.v), tx_proof.proof)
            raw_transactions_root ==
                IF tx_hashes.some THEN MerkleProof_root(tx_proof.proof, tx_hashes.v) ELSE None
        IN  IF /\ tx_hashes.some
               /\ raw_transactions_root.some
               /\ merkle_root(Block_tx_hashes(found.v)) = raw_transactions_root.v
            THEN RpcOk(tx_hashes.v)
            ELSE RpcErr("InvalidParams", "Invalid transaction proof")

ChainRpc_verify_transaction_proof(s, tx_proof) ==
    LET found == Snapshot_get_block(s, tx_proof.block_hash)
    IN  IF ~found.some
        THEN RpcErr("InvalidParams", "Cannot find block")
        ELSE
        LET witnesses_root == tx_proof.witnesses_root
            tx_hashes == CBMT_retrieve_leaves(Block_tx_hashes(found.v), tx_proof.proof)
            raw_transactions_root ==
                IF tx_hashes.some THEN MerkleProof_root(tx_proof.proof, tx_hashes.v) ELSE None
        IN  IF /\ tx_hashes.some
               /\ raw_transactions_root.some
               /\ Block_transactions_root(found.v) =
                     merkle_root(<<raw_transactions_root.v, witnesses_root>>)
            THEN RpcOk(tx_hashes.v)
            ELSE RpcErr("InvalidParams", "Invalid transaction proof")

\* get_tip_block_number: the number of the tip header of the snapshot
ChainRpc_get_tip_block_number(s) == RpcOk(Snapshot_tip_number(s))

\* the snapshot a lookup of a call is made on: the one bound at the call's
\* let snapshot = self.shared.snapshot(), whatever the shared one is by then
\* (mutant: the shared snapshot is taken again for the lookup)
HeldSnapshot_Retaken(shared, held) == shared

HeldSnapshot(shared, held) == held

----------------------------------------------------------------------------
(* The verifiers as operations on a given resolver and environment *)

NoVerdict == [verifier |-> "none", result |-> Ok, evaluated |-> <<>>]

InitHeader ==
    /\ target \in Targets
    /\ env \in Envs
    /\ verdict = NoVerdict
    /\ block = DefaultBlock
    /\ check = None
    /\ snapshot = GenesisSnapshot
    /\ tx_pool = EmptyPool
    /\ rpc = NoCall

HeaderVerifierVerify ==
    /\ verdict' = [verifier |-> "HeaderVerifier",
                   result |-> HeaderVerifier_verify(target, env).result,
                   evaluated |-> HeaderVerifier_verify(target, env).evaluated]
    /\ UNCHANGED <<target, env>>
    /\ UNCHANGED <<bvars, rvars>>

PowVerifierVerify ==
    /\ verdict' = [verifier |-> "PowVerifier",
                   result |-> PowVerifier_verify(target.header, env.pow),
                   evaluated |-> <<"Pow">>]
    /\ UNCHANGED <<target, env>>
    /\ UNCHANGED <<bvars, rvars>>

\* NumberVerifier::new takes the parent header by reference: there is one
NumberVerifierVerify ==
    /\ target.parent.some
    /\ verdict' = [verifier |-> "NumberVerifier",
                   result |-> NumberVerifier_verify(target.parent.v, target.header,
                                                    env.overflow_checks),
                   evaluated |-> <<"Number">>]
    /\ UNCHANGED <<target, env>>
    /\ UNCHANGED <<bvars, rvars>>

TimestampVerifierVerify ==
    /\ verdict' = [verifier |-> "TimestampVerifier",
                   result |-> TimestampVerifier_verify(env.median, target.header, env.now),
                   evaluated |-> <<"Timestamp">>]
    /\ UNCHANGED <<target, env>>
    /\ UNCHANGED <<bvars, rvars>>

DifficultyVerifierVerify ==
    /\ verdict' = [verifier |-> "DifficultyVerifier",
                   result |-> DifficultyVerifier_verify(target),
                   evaluated |-> <<"Difficulty">>]
    /\ UNCHANGED <<target, env>>
    /\ UNCHANGED <<bvars, rvars>>

NextHeader ==
    \/ HeaderVerifierVerify
    \/ PowVerifierVerify
    \/ NumberVerifierVerify
    \/ TimestampVerifierVerify
    \/ DifficultyVerifierVerify

SpecHeader == InitHeader /\ [][NextHeader]_vars

----------------------------------------------------------------------------
(* Properties of the header verifiers *)

Kind(r) == IF r.tag = "Err" THEN r.error.kind ELSE r.tag

\* the sub-checks of HeaderVerifier::verify on the current resolver and environment
PowCheck == PowVerifier_verify(target.header, env.pow)
ParentCheck == IF target.parent.some THEN Ok ELSE UnknownParent(target.header)
NumberCheck ==
    IF target.parent.some
    THEN NumberVerifier_verify(target.parent.v, target.header, env.overflow_checks)
    ELSE Ok
TimestampCheck == TimestampVerifier_verify(env.median, target.header, env.now)
DifficultyCheck == DifficultyVerifier_verify(target)

Returned(v) == verdict.verifier = v /\ verdict.result # Panic

\* C1 as stated: HeaderVerifier.verify returns the error of the earliest failing
\* check in the order PoW, parent resolution, number, timestamp, difficulty, the
\* errors being Pow(InvalidProof), UnknownParent(parent_hash), Number, Timestamp,
\* Difficulty in that order; nothing is evaluated after a failure; the result is
\* Ok exactly when all five checks pass.  (Read on the parents whose number + 1
\* does not overflow, so that the number check is not in question.)
C1_OrderedErrorKinds ==
    Returned("HeaderVerifier") /\ (target.parent.some => target.parent.v.number < U64_MAX) =>
        /\ PowCheck # Ok =>
              /\ verdict.result = Err([kind |-> "Pow", reason |-> "InvalidProof"])
              /\ verdict.evaluated = <<"Pow">>
        /\ PowCheck = Ok /\ ParentCheck # Ok =>
              /\ verdict.result = UnknownParent(target.header)
              /\ verdict.evaluated = <<"Pow", "Parent">>
        /\ PowCheck = Ok /\ ParentCheck = Ok /\ NumberCheck # Ok =>
              /\ Kind(verdict.result) = "Number"
              /\ verdict.evaluated = <<"Pow", "Parent", "Number">>
        /\ PowCheck = Ok /\ ParentCheck = Ok /\ NumberCheck = Ok /\ TimestampCheck # Ok =>
              /\ Kind(verdict.result) = "Timestamp"
              /\ verdict.evaluated = <<"Pow", "Parent", "Number", "Timestamp">>
        /\ PowCheck = Ok /\ ParentCheck = Ok /\ NumberCheck = Ok /\ TimestampCheck = Ok
              /\ DifficultyCheck # Ok =>
              /\ Kind(verdict.result) = "Difficulty"
              /\ verdict.evaluated = <<"Pow", "Parent", "Number", "Timestamp", "Difficulty">>
        /\ verdict.result = Ok <=>
              /\ PowCheck = Ok /\ ParentCheck = Ok /\ NumberCheck = Ok
              /\ TimestampCheck = Ok /\ DifficultyCheck = Ok

\* C1 as amended: the same order and short-circuit, where the timestamp check
\* fails with UnknownParent(parent_hash) when the chain provider has no median
\* time for the parent and with a Timestamp error otherwise; whenever the call
\* returns, its result is the result of the earliest failing check, no later
\* check has been evaluated, and it is Ok exactly when all five checks pass.
C1_FirstFailingCheck ==
    Returned("HeaderVerifier") =>
        /\ PowCheck # Ok =>
              /\ verdict.result = Err([kind |-> "Pow", reason |-> "InvalidProof"])
              /\ verdict.evaluated = <<"Pow">>
        /\ PowCheck = Ok /\ ParentCheck # Ok =>
              /\ verdict.result = UnknownParent(target.header)
              /\ verdict.evaluated = <<"Pow", "Parent">>
        /\ PowCheck = Ok /\ ParentCheck = Ok /\ NumberCheck # Ok =>
              /\ verdict.result = NumberCheck
              /\ Kind(verdict.result) = "Number"
              /\ verdict.evaluated = <<"Pow", "Parent", "Number">>
        /\ PowCheck = Ok /\ ParentCheck = Ok /\ NumberCheck = Ok /\ TimestampCheck # Ok =>
              /\ verdict.result = TimestampCheck
              /\ Kind(verdict.result) =
                    IF env.median.some THEN "Timestamp" ELSE "UnknownParent"
              /\ ~env.median.some => verdict.result = UnknownParent(target.header)
              /\ verdict.evaluated = <<"Pow", "Parent", "Number", "Timestamp">>
        /\ PowCheck = Ok /\ ParentCheck = Ok /\ NumberCheck = Ok /\ TimestampCheck = Ok
              /\ DifficultyCheck # Ok =>
              /\ verdict.result = DifficultyCheck
              /\ Kind(verdict.result) = "Difficulty"
              /\ verdict.evaluated = <<"Pow", "Parent", "Number", "Timestamp", "Difficulty">>
        /\ verdict.result = Ok <=>
              /\ PowCheck = Ok /\ ParentCheck = Ok /\ NumberCheck = Ok
              /\ TimestampCheck = Ok /\ DifficultyCheck = Ok

\* HeaderVerifier.verify has returned UnknownParent from its timestamp check:
\* PoW, parent resolution and number passed and the median time is unknown.
C1_Witness ==
    /\ Returned("HeaderVerifier")
    /\ env.pow /\ target.parent.some /\ NumberCheck = Ok /\ ~env.median.some
    /\ verdict.result = UnknownParent(target.header)
    /\ Len(verdict.evaluated) = 4

\* C2 as stated: TimestampVerifier.verify rejects iff timestamp <= median or
\* timestamp > now + 15000, with BlockTimeTooEarly{min = median, found} in the
\* first case, BlockTimeTooNew{max = now + 15000, found} in the second, and Ok
\* in every other case.
C2_RejectsIffEarlyOrNew ==
    Returned("TimestampVerifier") =>
        LET ts == target.header.timestamp
            max == env.now + ALLOWED_FUTURE_BLOCKTIME
            early == env.median.some /\ ts <= env.median.v
            new == ts > max
        IN  /\ verdict.result # Ok <=> early \/ new
            /\ early => verdict.result =
                   Err([kind |-> "Timestamp", reason |-> "BlockTimeTooEarly",
                        min |-> env.median.v, found |-> ts])
            /\ ~early /\ new => verdict.result =
                   Err([kind |-> "Timestamp", reason |-> "BlockTimeTooNew",
                        max |-> max, found |-> ts])
            /\ ~early /\ ~new => verdict.result = Ok

\* C2 as amended: when the chain provider has a median time for the parent the
\* verifier rejects iff timestamp <= median (BlockTimeTooEarly{min = median,
\* found}) or, the timestamp being later than the median, timestamp > now + 15000
\* (BlockTimeTooNew{max = now + 15000, found}), and returns Ok otherwise; when it
\* has none the verifier rejects with UnknownParent(parent_hash).
C2_TimestampRule ==
    Returned("TimestampVerifier") =>
        LET ts == target.header.timestamp
            max == env.now + ALLOWED_FUTURE_BLOCKTIME
            early == env.median.some /\ ts <= env.median.v
            new == ts > max
        IN  /\ ~env.median.some => verdict.result = UnknownParent(target.header)
            /\ env.median.some =>
                  /\ verdict.result # Ok <=> early \/ new
                  /\ early => verdict.result =
                         Err([kind |-> "Timestamp", reason |-> "BlockTimeTooEarly",
                              min |-> env.median.v, found |-> ts])
                  /\ ~early /\ new => verdict.result =
                         Err([kind |-> "Timestamp", reason |-> "BlockTimeTooNew",
                              max |-> max, found |-> ts])
                  /\ ~early /\ ~new => verdict.result = Ok

\* TimestampVerifier.verify has run on a header whose timestamp lies strictly
\* between a known median and the future limit's neighbourhood, or on one whose
\* parent has no median time.
C2_Witness ==
    /\ Returned("TimestampVerifier")
    /\ ~env.median.some
    /\ target.header.timestamp = BaseMedian + 1
    /\ verdict.result = UnknownParent(target.header)

\* C3 as stated: over the whole range of block numbers NumberVerifier(P, H)
\* returns Ok iff H.number = P.number + 1 and otherwise
\* Number{expected: P.number + 1, actual: H.number}.
C3_NumberIsParentPlusOne ==
    verdict.verifier = "NumberVerifier" =>
        LET p == target.parent.v
            h == target.header
        IN  /\ verdict.result = Ok <=> h.number = p.number + 1
            /\ h.number # p.number + 1 =>
                  verdict.result = Err([kind |-> "Number", expected |-> p.number + 1,
                                        actual |-> h.number])

----------------------------------------------------------------------------
(* Blocks and their transactions root *)

InitBlock ==
    /\ target = CHOOSE t \in Targets : TRUE
    /\ env = CHOOSE e \in Envs : TRUE
    /\ verdict = NoVerdict
    /\ block = DefaultBlock
    /\ check = None
    /\ snapshot = GenesisSnapshot
    /\ tx_pool = EmptyPool
    /\ rpc = NoCall

\* Block::new
BlockNew ==
    /\ \E b \in CoreBlocks : block' = b
    /\ check' = None
    /\ UNCHANGED <<hvars, rvars>>

\* Block::check_txs_root(&self)
BlockCheckTxsRoot ==
    /\ check' = Some(Block_check_txs_root(block))
    /\ UNCHANGED block
    /\ UNCHANGED <<hvars, rvars>>

NextBlock ==
    \/ BlockNew
    \/ BlockCheckTxsRoot

SpecBlock == InitBlock /\ [][NextBlock]_vars

\* C4: check_txs_root returns Ok iff the merkle root over the hashes of the
\* block's transactions, in block order, equals header.txs_commit; otherwise it
\* returns InvalidTransactionsRoot(expected = header.txs_commit, actual = the
\* computed root); the block is the same after the call in both cases.
C4_CheckTxsRoot ==
    [][check'.some =>
          LET root == merkle_root([i \in 1 .. Len(block.transactions) |->
                                      Transaction_hash(block.transactions[i])])
          IN  /\ block' = block
              /\ check'.v = Ok <=> root = block.header.txs_commit
              /\ root # block.header.txs_commit =>
                    /\ check'.v.tag = "Err"
                    /\ check'.v.error.kind = "InvalidTransactionsRoot"
                    /\ check'.v.error.expected = block.header.txs_commit
                    /\ check'.v.error.actual = root]_vars

\* check_txs_root has rejected a block of two transactions a, b whose header
\* commits to the root of a, a: expected is hash(a || a), actual hash(a || b).
C4_Witness ==
    /\ check.some
    /\ Len(block.transactions) = 2
    /\ block.transactions[1] # block.transactions[2]
    /\ block.header.txs_commit =
          merge(Transaction_hash(block.transactions[1]), Transaction_hash(block.transactions[1]))
    /\ check.v = InvalidTransactionsRoot(
          block.header.txs_commit,
          merge(Transaction_hash(block.transactions[1]), Transaction_hash(block.transactions[2])))

----------------------------------------------------------------------------
(* get_transaction against the pool and the snapshot *)

\* the hashes asked for: a cellbase, a transaction of block 1, a pool-only
\* transaction with the same short id, a transaction of block 2, an unknown one
QueryTxHashes == {<<1, 0, 1>>, <<1, 1, 0>>, <<1, 1, 9>>, <<2, 1, 0>>, <<9, 9, 0>>}

InitRpc ==
    /\ target = CHOOSE t \in Targets : TRUE
    /\ env = CHOOSE e \in Envs : TRUE
    /\ verdict = NoVerdict
    /\ block = DefaultBlock
    /\ check = None
    /\ tx_pool = EmptyPool
    /\ rpc = NoCall

InitTx ==
    /\ InitRpc
    /\ snapshot = GenesisSnapshot

GetTransaction ==
    /\ \E hash \in QueryTxHashes, sent \in BOOLEAN :
          LET r == ChainRpc_get_transaction(snapshot, tx_pool, hash, sent)
          IN  rpc' = [method |-> "get_transaction", hash |-> hash, sent |-> sent,
                      result |-> r.result, reads |-> r.reads]
    /\ UNCHANGED <<snapshot, tx_pool, hvars, bvars>>

NextTx ==
    \/ AttachBlock
    \/ Reorg
    \/ TxPoolUpdate
    \/ GetTransaction

SpecTx == InitTx /\ [][NextTx]_vars

\* the pool's entry for the short id of the hash asked for, and the committed transaction
AskedPoolEntry == tx_pool[ProposalShortId_from_tx_hash(rpc.hash)]
AskedCommitted == Snapshot_get_transaction(snapshot, rpc.hash)
InPoolAndSnapshot ==
    /\ rpc.method = "get_transaction"
    /\ rpc.sent
    /\ ProposalShortId_from_tx_hash(rpc.hash) \in PoolIds
    /\ AskedPoolEntry.some
    /\ AskedPoolEntry.v.tx.hash = rpc.hash
    /\ AskedCommitted.some

\* C5 as stated: a transaction present both in the pool and in the snapshot is
\* reported with status Committed(block_hash).
C5_BothReportedCommitted ==
    InPoolAndSnapshot =>
        /\ rpc.result.tag = "Ok"
        /\ rpc.result.v.some
        /\ rpc.result.v.v.tx_status =
              [status |-> "committed", block_hash |-> Some(AskedCommitted.v.block_hash)]

\* C5 as amended: a transaction present both in the pool and in the snapshot is
\* reported with the pool's status, Proposed when the pool's proposed flag is
\* set and Pending otherwise, without a block hash.
C5_BothReportedFromPool ==
    InPoolAndSnapshot =>
        /\ rpc.result.tag = "Ok"
        /\ rpc.result.v.some
        /\ rpc.result.v.v.tx_status =
              [status |-> IF AskedPoolEntry.v.proposed THEN "proposed" ELSE "pending",
               block_hash |-> None]

\* get_transaction has answered for a transaction that is pending in the pool
\* and committed in block 1 of the main chain
C5_Witness ==
    /\ InPoolAndSnapshot
    /\ ~AskedPoolEntry.v.proposed
    /\ AskedCommitted.v.block_hash[2] = 1
    /\ rpc.result.v.v.tx_status.status = "pending"

\* C6: get_transaction consults the pool first and the snapshot only when the
\* pool has no entry: a pool entry yields Proposed when its flag is set and
\* Pending otherwise; with no pool entry the result is Committed(block_hash) when
\* the snapshot holds the transaction and None when it does not; a failed pool
\* request yields an internal error and the snapshot is not consulted.
C6_PoolThenSnapshot ==
    rpc.method = "get_transaction" =>
        LET id == ProposalShortId_from_tx_hash(rpc.hash)
            entry == IF id \in PoolIds THEN tx_pool[id] ELSE None
        IN  /\ ~rpc.sent =>
                  /\ rpc.result.tag = "Err"
                  /\ rpc.result.code = "CkbInternalError"
                  /\ rpc.reads = <<"tx_pool">>
            /\ rpc.sent /\ entry.some =>
                  /\ rpc.result = RpcOk(Some(
                        [transaction |-> entry.v.tx,
                         tx_status |-> [status |-> IF entry.v.proposed THEN "proposed"
                                                                       ELSE "pending",
                                        block_hash |-> None]]))
                  /\ rpc.reads = <<"tx_pool">>
            /\ rpc.sent /\ ~entry.some /\ AskedCommitted.some =>
                  /\ rpc.result = RpcOk(Some(
                        [transaction |-> AskedCommitted.v.tx,
                         tx_status |-> [status |-> "committed",
                                        block_hash |-> Some(AskedCommitted.v.block_hash)]]))
                  /\ rpc.reads = <<"tx_pool", "snapshot">>
            /\ rpc.sent /\ ~entry.some /\ ~AskedCommitted.some =>
                  /\ rpc.result = RpcOk(None)
                  /\ rpc.reads = <<"tx_pool", "snapshot">>

\* get_transaction has fallen through an empty pool slot to the snapshot and
\* reported the transaction committed
C6_Witness ==
    /\ rpc.method = "get_transaction"
    /\ rpc.sent
    /\ rpc.reads = <<"tx_pool", "snapshot">>
    /\ rpc.result.tag = "Ok"
    /\ rpc.result.v.some
    /\ rpc.result.v.v.tx_status.status = "committed"
    /\ \E id \in PoolIds : tx_pool[id].some

----------------------------------------------------------------------------
(* get_cells_by_lock_hash over the main chain *)

LockHashes == {<<1>>, <<2>>}
FromNumbers == {0, 1, 2}
ToNumbers(from) == (0 .. MaxTip + 1) \cup {from + PAGE_SIZE, from + PAGE_SIZE + 1}

InitCells ==
    /\ InitRpc
    /\ \E f \in {"none", "no_block"} : snapshot = [GenesisSnapshot EXCEPT !.fault = f]

GetCellsByLockHash ==
    /\ \E lock_hash \in LockHashes, from \in FromNumbers :
          \E to \in ToNumbers(from) :
             LET r == ChainRpc_get_cells_by_lock_hash(snapshot, lock_hash, from, to)
             IN  rpc' = [method |-> "get_cells_by_lock_hash", lock_hash |-> lock_hash,
                         from |-> from, to |-> to, result |-> r.result, reads |-> r.reads]
    /\ UNCHANGED <<snapshot, tx_pool, hvars, bvars>>

NextCells ==
    \/ AttachBlock
    \/ Reorg
    \/ SpendCell
    \/ GetCellsByLockHash

SpecCells == InitCells /\ [][NextCells]_vars

Min(a, b) == IF a <= b THEN a ELSE b
Max(a, b) == IF a >= b THEN a ELSE b

\* the places <<n, k, i>> (block number, transaction, output) of the main-chain
\* outputs in [from, to] locked by lock_hash whose dead bit is unset
LiveCellPlaces(s, lock_hash, from, to) ==
    {p \in {<<n, k, i>> : n \in from .. Min(to, Snapshot_tip_number(s)),
                          k \in 1 .. MaxTip + 1, i \in 0 .. 1} :
        LET txs == BlockOf(s.chain[p[1] + 1]).transactions
        IN  /\ p[2] <= Len(txs)
            /\ p[3] < Len(txs[p[2]].outputs)
            /\ <<txs[p[2]].outputs[p[3] + 1].lock>> = lock_hash
            /\ OutPoint(txs[p[2]].hash, p[3]) \notin s.dead}

\* the entry the RPC reports for the output at a place
CellAt(s, p) ==
    LET tx == BlockOf(s.chain[p[1] + 1]).transactions[p[2]]
    IN  [out_point |-> [tx_hash |-> tx.hash, index |-> p[3]],
         block_hash |-> s.chain[p[1] + 1],
         capacity |-> tx.outputs[p[3] + 1].capacity,
         lock |-> tx.outputs[p[3] + 1].lock,
         output_data_len |-> tx.outputs[p[3] + 1].output_data_len,
         cellbase |-> tx.cellbase]

PlaceBefore(p, q) ==
    \/ p[1] < q[1]
    \/ p[1] = q[1] /\ p[2] < q[2]
    \/ p[1] = q[1] /\ p[2] = q[2] /\ p[3] < q[3]

RangeAccepted == rpc.from <= rpc.to /\ rpc.to - rpc.from <= PAGE_SIZE

\* every main-chain number of the range leads to a stored block
RangeInDatabase ==
    \A n \in rpc.from .. Min(rpc.to, Snapshot_tip_number(snapshot)) :
        Snapshot_get_block(snapshot, snapshot.chain[n + 1]).some

\* C8: get_cells_by_lock_hash returns exactly one entry per output, in block,
\* transaction and output order, of a transaction in a main-chain block numbered
\* in [from, to] whose lock hash is lock_hash and whose dead bit is unset, and no
\* other entry; the first number without a main-chain hash ends the scan with
\* the entries collected so far and no error; from = to scans exactly one block.
C8_LiveCellsInOrder ==
    rpc.method = "get_cells_by_lock_hash" /\ RangeAccepted /\ RangeInDatabase =>
        LET places == LiveCellPlaces(snapshot, rpc.lock_hash, rpc.from, rpc.to)
            tip == Snapshot_tip_number(snapshot)
        IN  /\ rpc.result.tag = "Ok"
            /\ Len(rpc.result.v) = Cardinality(places)
            /\ \A p \in places :
                  Cardinality({x \in 1 .. Len(rpc.result.v) :
                                  rpc.result.v[x] = CellAt(snapshot, p)}) = 1
            /\ \A x \in 1 .. Len(rpc.result.v) :
                  \E p \in places : rpc.result.v[x] = CellAt(snapshot, p)
            /\ \A x, y \in 1 .. Len(rpc.result.v) :
                  x < y => \E p, q \in places :
                              /\ rpc.result.v[x] = CellAt(snapshot, p)
                              /\ rpc.result.v[y] = CellAt(snapshot, q)
                              /\ PlaceBefore(p, q)
            /\ rpc.reads = [x \in 1 .. Max(rpc.from, Min(rpc.to, tip + 1)) - rpc.from + 1 |->
                                rpc.from + x - 1]
            /\ rpc.from = rpc.to => Len(rpc.reads) = 1

\* a scan over blocks 1 .. 3 of a chain with tip 2 has ended at the gap and
\* returned the live cells of blocks 1 and 2, one output of block 1 being dead
C8_Witness ==
    /\ rpc.method = "get_cells_by_lock_hash"
    /\ rpc.from = 1 /\ rpc.to = 3 /\ rpc.lock_hash = <<1>>
    /\ Snapshot_tip_number(snapshot) = 2
    /\ snapshot.dead # {}
    /\ rpc.result.tag = "Ok"
    /\ Len(rpc.result.v) >= 3
    /\ rpc.reads = <<1, 2, 3>>

\* C9: get_cells_by_lock_hash rejects with InvalidParams, before reading any
\* block, every request with from > to or to - from > PAGE_SIZE, and accepts
\* every request with from <= to and to - from <= PAGE_SIZE.
C9_RangeValidation ==
    rpc.method = "get_cells_by_lock_hash" =>
        /\ (rpc.from > rpc.to \/ rpc.to - rpc.from > PAGE_SIZE) =>
              /\ rpc.result.tag = "Err"
              /\ rpc.result.code = "InvalidParams"
              /\ rpc.reads = <<>>
        /\ (rpc.from <= rpc.to /\ rpc.to - rpc.from <= PAGE_SIZE) =>
              ~(rpc.result.tag = "Err" /\ rpc.result.code = "InvalidParams")
        /\ rpc.to - rpc.from = PAGE_SIZE => rpc.result.tag = "Ok" \/ ~RangeInDatabase
        /\ rpc.to - rpc.from = PAGE_SIZE + 1 => rpc.result.tag = "Err"

\* a request spanning exactly PAGE_SIZE numbers has been accepted and scanned
C9_Witness ==
    /\ rpc.method = "get_cells_by_lock_hash"
    /\ rpc.to - rpc.from = PAGE_SIZE
    /\ rpc.result.tag = "Ok"
    /\ Len(rpc.result.v) > 0
    /\ Len(rpc.reads) > 1

----------------------------------------------------------------------------
(* get_block_economic_state *)

InitEconomic ==
    /\ InitRpc
    /\ \E f \in StoreFaults, d \in 1 .. MaxDelay :
          snapshot = [GenesisSnapshot EXCEPT !.fault = f, !.finalization_delay_length = d]

GetBlockEconomicState ==
    /\ \E hash \in AllBlockHashes \cup {UnknownBlockHash} :
          rpc' = [method |-> "get_block_economic_state", hash |-> hash,
                  result |-> ChainRpc_get_block_economic_state(snapshot, hash)]
    /\ UNCHANGED <<snapshot, tx_pool, hvars, bvars>>

NextEconomic ==
    \/ AttachBlock
    \/ Reorg
    \/ GetBlockEconomicState

SpecEconomic == InitEconomic /\ [][NextEconomic]_vars

RECURSIVE SumSeq(_)
SumSeq(q) == IF q = <<>> THEN 0 ELSE q[1] + SumSeq(Tail(q))

\* the number of the block asked for, when the main chain has it
AskedNumber == Snapshot_get_block_number(snapshot, rpc.hash)
\* genesis, absent, or not yet finalized
NotFinalized ==
    \/ ~AskedNumber.some
    \/ AskedNumber.v = 0
    \/ Snapshot_tip_number(snapshot) < AskedNumber.v + snapshot.finalization_delay_length
\* a lookup or computation the state is assembled from fails: the epoch of the
\* block, its issuance, its block_ext, the checked sum of its fees, its header,
\* its reward
AssemblyFails ==
    \/ snapshot.fault \in {"no_epoch_index", "no_epoch_ext", "block_reward_err",
                           "secondary_issuance_err", "no_block_ext", "reward_calculator_err"}
    \/ SumSeq(BlockTxsFees(rpc.hash[1], rpc.hash[2])) > MaxCapacity
    \/ ~Snapshot_get_block_header(snapshot, rpc.hash).some

EconomicStateReturned ==
    /\ rpc.result = RpcOk(Some(
          [issuance |-> rpc.result.v.v.issuance,
           miner_reward |-> rpc.result.v.v.miner_reward,
           txs_fee |-> SumSeq(BlockTxsFees(rpc.hash[1], rpc.hash[2])),
           finalized_at |->
               snapshot.chain[AskedNumber.v + snapshot.finalization_delay_length + 1]]))
    /\ rpc.result.v.v.finalized_at # rpc.hash

\* C7 as stated: get_block_economic_state returns None when the block is
\* genesis, absent from the snapshot or not yet finalized, and in every other
\* case a state whose finalized_at is the main-chain hash at number
\* block.number + finalization_delay_length and whose txs_fee is the sum of the
\* block's txs_fees.
C7_NoneIffNotFinalized ==
    rpc.method = "get_block_economic_state" =>
        /\ NotFinalized => rpc.result = RpcOk(None)
        /\ ~NotFinalized =>
              /\ rpc.result.tag = "Ok"
              /\ rpc.result.v.some
              /\ EconomicStateReturned

\* C7 as amended: None when the block is genesis, absent or not yet finalized,
\* and also when a lookup or computation the state is assembled from fails (the
\* block's epoch or issuance, its block_ext, the checked sum of its txs_fees, its
\* header, its reward); in every other case a state whose finalized_at is the
\* main-chain hash at number block.number + finalization_delay_length, not the
\* block's own hash, and whose txs_fee is the sum of the block's txs_fees.
C7_EconomicState ==
    rpc.method = "get_block_economic_state" =>
        /\ NotFinalized => rpc.result = RpcOk(None)
        /\ ~NotFinalized /\ AssemblyFails => rpc.result = RpcOk(None)
        /\ ~NotFinalized /\ ~AssemblyFails =>
              /\ rpc.result.tag = "Ok"
              /\ rpc.result.v.some
              /\ EconomicStateReturned

\* block 1 has been reported finalized at block 3 of a chain whose tip is 3,
\* the finalization delay being 2
C7_Witness ==
    /\ rpc.method = "get_block_economic_state"
    /\ AskedNumber = Some(1)
    /\ snapshot.finalization_delay_length = 2
    /\ Snapshot_tip_number(snapshot) = 3
    /\ rpc.result.tag = "Ok"
    /\ rpc.result.v.some
    /\ rpc.result.v.v.finalized_at = snapshot.chain[4]
    /\ rpc.result.v.v.txs_fee = 1

----------------------------------------------------------------------------
(* get_transaction_proof *)

MaxProofTxs == 2
ProofTxHashes == {<<1, 1, 0>>, <<2, 1, 0>>, <<2, 2, 0>>, <<9, 9, 0>>}
ProofBlockHashes == {None, Some(BlockHash(1, 1)), Some(BlockHash(1, 2))}

InitProof ==
    /\ InitRpc
    /\ \E f \in {"none", "no_block"} : snapshot = [GenesisSnapshot EXCEPT !.fault = f]

GetTransactionProof ==
    /\ \E tx_hashes \in SeqsUpTo(ProofTxHashes, MaxProofTxs), block_hash \in ProofBlockHashes :
          \E order \in HandedOrders(snapshot, tx_hashes) :
             LET r == ChainRpc_get_transaction_proof(snapshot, tx_hashes, block_hash, order)
             IN  rpc' = [method |-> "get_transaction_proof", tx_hashes |-> tx_hashes,
                         block_hash |-> block_hash, result |-> r.result, handed |-> r.handed]
    /\ UNCHANGED <<snapshot, tx_pool, hvars, bvars>>

NextProof ==
    \/ AttachBlock
    \/ Reorg
    \/ GetTransactionProof

SpecProof == InitProof /\ [][NextProof]_vars

AskedInfo(k) == Snapshot_get_transaction_info(snapshot, rpc.tx_hashes[k])
AllResolve == \A k \in 1 .. Len(rpc.tx_hashes) : AskedInfo(k).some
\* what makes a request for a proof invalid
InvalidProofRequest ==
    \/ rpc.tx_hashes = <<>>
    \/ ~AllResolve
    \/ \E k, l \in 1 .. Len(rpc.tx_hashes) : AskedInfo(k).v.block_hash # AskedInfo(l).v.block_hash
    \/ \E k, l \in 1 .. Len(rpc.tx_hashes) : k < l /\ rpc.tx_hashes[k] = rpc.tx_hashes[l]
    \/ rpc.block_hash.some /\ rpc.block_hash.v # AskedInfo(1).v.block_hash

\* C10: get_transaction_proof returns InvalidParams, and no proof, whenever
\* tx_hashes is empty, some hash has no transaction info in the snapshot, two
\* hashes resolve to different blocks, the same transaction appears twice, or
\* the block hash the caller specifies differs from the resolved one; it builds
\* a proof only when none of these holds.
C10_InvalidProofRequests ==
    rpc.method = "get_transaction_proof" =>
        /\ InvalidProofRequest =>
              /\ rpc.result.tag = "Err"
              /\ rpc.result.code = "InvalidParams"
              /\ rpc.handed = None
        /\ rpc.handed.some => ~InvalidProofRequest
        /\ rpc.result.tag = "Ok" =>
              /\ ~InvalidProofRequest
              /\ rpc.result.v.block_hash = AskedInfo(1).v.block_hash

\* a request whose transactions all sit in one block, another than the block
\* the caller specifies, has been rejected
C10_Witness ==
    /\ rpc.method = "get_transaction_proof"
    /\ Len(rpc.tx_hashes) = 2
    /\ rpc.tx_hashes[1] # rpc.tx_hashes[2]
    /\ AllResolve
    /\ AskedInfo(1).v.block_hash = AskedInfo(2).v.block_hash
    /\ rpc.block_hash.some
    /\ rpc.block_hash.v # AskedInfo(1).v.block_hash
    /\ rpc.result.tag = "Err"
    /\ rpc.result.code = "InvalidParams"

----------------------------------------------------------------------------
(* verify_transaction_proof, applied to what get_transaction_proof returned *)

\* what a caller may have done to a proof before handing it back
Tamperings ==
    {"none", "witnesses_root", "unknown_block", "other_block", "reverse_indices",
     "index_out_of_range", "drop_lemma", "extra_lemma", "wrong_lemma"}

Reverse(q) == [k \in 1 .. Len(q) |-> q[Len(q) + 1 - k]]

Tamper(s, p, t) ==
    CASE t = "none" -> p
      [] t = "witnesses_root" -> [p EXCEPT !.witnesses_root = ZeroHash]
      [] t = "unknown_block" -> [p EXCEPT !.block_hash = UnknownBlockHash]
      [] t = "other_block" -> [p EXCEPT !.block_hash = s.chain[Len(s.chain)]]
      [] t = "reverse_indices" -> [p EXCEPT !.proof.indices = Reverse(@)]
      [] t = "index_out_of_range" ->
            [p EXCEPT !.proof.indices = <<2 * (MaxTip + 1) + 1>> \o Tail(@)]
      [] t = "drop_lemma" ->
            [p EXCEPT !.proof.lemmas = IF @ = <<>> THEN @ ELSE SubSeq(@, 1, Len(@) - 1)]
      [] t = "extra_lemma" -> [p EXCEPT !.proof.lemmas = Append(@, ZeroHash)]
      [] t = "wrong_lemma" ->
            [p EXCEPT !.proof.lemmas = IF @ = <<>> THEN @ ELSE <<ZeroHash>> \o Tail(@)]

VerifyTransactionProof ==
    /\ rpc.method = "get_transaction_proof"
    /\ rpc.result.tag = "Ok"
    /\ \E t \in Tamperings :
          LET tx_proof == Tamper(snapshot, rpc.result.v, t)
          IN  rpc' = [method |-> "verify_transaction_proof", tx_proof |-> tx_proof,
                      tampering |-> t, tx_hashes |-> rpc.tx_hashes, built |-> rpc.result.v,
                      result |-> ChainRpc_verify_transaction_proof(snapshot, tx_proof)]
    /\ UNCHANGED <<snapshot, tx_pool, hvars, bvars>>

NextVerify ==
    \/ AttachBlock
    \/ Reorg
    \/ GetTransactionProof
    \/ VerifyTransactionProof

SpecVerify == InitProof /\ [][NextVerify]_vars

Range(q) == {q[k] : k \in 1 .. Len(q)}
\* the block a proof names, and the positions among its transactions that the
\* tree indices of the proof stand for
ProofBlock == Snapshot_get_block(snapshot, rpc.tx_proof.block_hash)
LeafPosition(b, index) == index - (Len(b.transactions) - 1) + 1
IndicesAreLeaves(b) ==
    \A k \in 1 .. Len(rpc.tx_proof.proof.indices) :
        LeafPosition(b, rpc.tx_proof.proof.indices[k]) \in 1 .. Len(b.transactions)

C12_VerifyTransactionProof ==
    rpc.method = "verify_transaction_proof" =>
        /\ rpc.result.tag = "Ok" =>
              /\ ProofBlock.some
              /\ IndicesAreLeaves(ProofBlock.v)
              /\ rpc.tx_proof.proof.indices # <<>>
              /\ rpc.tx_proof.witnesses_root = Block_calc_witnesses_root(ProofBlock.v)
              /\ MerkleProof_root(rpc.tx_proof.proof, rpc.result.v) =
                    Some(merkle_root(Block_tx_hashes(ProofBlock.v)))
              /\ rpc.result.v =
                    [k \in 1 .. Len(rpc.tx_proof.proof.indices) |->
                        ProofBlock.v.transactions[
                            LeafPosition(ProofBlock.v, rpc.tx_proof.proof.indices[k])].hash]
        /\ ~ProofBlock.some => rpc.result = RpcErr("InvalidParams", "Cannot find block")
        /\ ProofBlock.some /\ rpc.result.tag # "Ok" =>
              rpc.result = RpcErr("InvalidParams", "Invalid transaction proof")
        /\ rpc.tampering \in {"witnesses_root", "index_out_of_range", "extra_lemma"} =>
              rpc.result.tag = "Err"

\* a proof that verifies but for its witnesses_root has been rejected as invalid
C12_Witness ==
    /\ rpc.method = "verify_transaction_proof"
    /\ rpc.tampering = "witnesses_root"
    /\ ChainRpc_verify_transaction_proof(snapshot, rpc.built).tag = "Ok"
    /\ Len(rpc.built.proof.indices) = 2
    /\ rpc.result = RpcErr("InvalidParams", "Invalid transaction proof")

----------------------------------------------------------------------------
(* the order of the indices handed to the proof builder *)

IsAscending(q) == \A k \in 1 .. Len(q) - 1 : q[k] < q[k + 1]

\* C13: in get_transaction_proof the leaf indices handed to the proof builder
\* are in ascending order for every order of tx_hashes in the request (so that
\* every call with the same set of hashes hands the builder the same sequence),
\* and the call returns the result that the same set of hashes gives in any
\* other order.
C13_HandedAscending ==
    rpc.method = "get_transaction_proof" /\ rpc.handed.some =>
        /\ IsAscending(rpc.handed.v)
        /\ \A order \in HandedOrders(snapshot, rpc.tx_hashes) :
              LET other == ChainRpc_get_transaction_proof(
                               snapshot, Reverse(rpc.tx_hashes), rpc.block_hash, order)
              IN  other.handed.some /\ other.result = rpc.result

----------------------------------------------------------------------------
(* query calls step by step, against a writer that replaces the shared snapshot *)

MaxSwaps == 2

\* the snapshots a writer may store next: one more block, or the other branch
WriterSuccessors(s) ==
    {[s EXCEPT !.chain = Append(@, BlockHash(br, Snapshot_tip_number(s) + 1))] :
        br \in IF Snapshot_tip_number(s) < MaxTip THEN ChainBranch(s) ELSE {}}
    \cup
    {[s EXCEPT !.chain = c, !.dead = {}] :
        c \in {d \in Chains : /\ Len(s.chain) >= 2
                              /\ Len(d) >= Len(s.chain)
                              /\ d[2] # s.chain[2]}}

Requests ==
    {[method |-> "get_cells_by_lock_hash", lock_hash |-> l, from |-> r[1], to |-> r[2]] :
        l \in LockHashes, r \in {<<0, 0>>, <<1, 2>>, <<1, MaxTip>>, <<2, 1>>}}
    \cup {[method |-> "get_block_economic_state", hash |-> h] :
             h \in {GenesisHash, BlockHash(1, 1), BlockHash(2, 1), BlockHash(1, 2)}}
    \cup {[method |-> "get_tip_block_number"]}
    \cup {[method |-> "get_transaction", hash |-> h, sent |-> b] :
             h \in {<<1, 1, 0>>, <<2, 1, 0>>, <<9, 9, 0>>}, b \in BOOLEAN}

InCall == rpc.method # "none" /\ rpc.pc # "done"

\* the call as a whole on one snapshot
WholeCall(s, request) ==
    CASE request.method = "get_cells_by_lock_hash" ->
            ChainRpc_get_cells_by_lock_hash(s, request.lock_hash, request.from,
                                            request.to).result
      [] request.method = "get_block_economic_state" ->
            ChainRpc_get_block_economic_state(s, request.hash)
      [] request.method = "get_tip_block_number" -> ChainRpc_get_tip_block_number(s)
      [] request.method = "get_transaction" ->
            ChainRpc_get_transaction(s, tx_pool, request.hash, request.sent).result

InitSnapshot ==
    /\ InitRpc
    /\ snapshot = GenesisSnapshot

\* the writer stores a new snapshot in one step
SwapSnapshot ==
    /\ InCall => rpc.swaps < MaxSwaps
    /\ \E next \in WriterSuccessors(snapshot) :
          /\ snapshot' = next
          /\ rpc' = IF InCall
                    THEN [rpc EXCEPT !.seen = @ \cup {next}, !.swaps = @ + 1]
                    ELSE NoCall
    /\ UNCHANGED <<tx_pool, hvars, bvars>>

Call ==
    /\ ~InCall
    /\ \E request \in Requests :
          rpc' = [method |-> request.method, request |-> request, pc |-> "entry",
                  seen |-> {snapshot}, swaps |-> 0, takes |-> 0, held |-> None,
                  block_number |-> 0, cells |-> <<>>, result |-> NoCall]
    /\ UNCHANGED <<snapshot, tx_pool, hvars, bvars>>

Done(result) == [rpc EXCEPT !.pc = "done", !.result = result]
Take(call) == [call EXCEPT !.held = Some(snapshot), !.takes = @ + 1]

\* get_cells_by_lock_hash up to the loop: the snapshot is taken, the range checked
CellsTakeSnapshot ==
    /\ InCall /\ rpc.method = "get_cells_by_lock_hash" /\ rpc.pc = "entry"
    /\ rpc' = IF rpc.request.from > rpc.request.to
                 \/ rpc.request.to - rpc.request.from > PAGE_SIZE
              THEN Take(Done(WholeCall(snapshot, rpc.request)))
              ELSE Take([rpc EXCEPT !.pc = "scan", !.block_number = rpc.request.from])
    /\ UNCHANGED <<snapshot, tx_pool, hvars, bvars>>

\* one turn of the loop over block numbers
CellsScanBlock ==
    /\ InCall /\ rpc.method = "get_cells_by_lock_hash" /\ rpc.pc = "scan"
    /\ LET s == HeldSnapshot(snapshot, rpc.held.v)
           turn == ScanBlocks(s, rpc.request.lock_hash, rpc.block_number,
                              rpc.block_number, rpc.cells, <<>>)
       IN  rpc' = IF rpc.block_number > rpc.request.to
                  THEN Done(RpcOk(rpc.cells))
                  ELSE IF ~Snapshot_get_block_hash(s, rpc.block_number).some
                  THEN Done(RpcOk(rpc.cells))
                  ELSE IF turn.result.tag = "Err"
                  THEN Done(turn.result)
                  ELSE [rpc EXCEPT !.block_number = @ + 1, !.cells = turn.result.v]
    /\ UNCHANGED <<snapshot, tx_pool, hvars, bvars>>

EconomicTakeSnapshot ==
    /\ InCall /\ rpc.method = "get_block_economic_state" /\ rpc.pc = "entry"
    /\ rpc' = Take([rpc EXCEPT !.pc = "assemble"])
    /\ UNCHANGED <<snapshot, tx_pool, hvars, bvars>>

EconomicAssemble ==
    /\ InCall /\ rpc.method = "get_block_economic_state" /\ rpc.pc = "assemble"
    /\ rpc' = Done(ChainRpc_get_block_economic_state(
                       HeldSnapshot(snapshot, rpc.held.v), rpc.request.hash))
    /\ UNCHANGED <<snapshot, tx_pool, hvars, bvars>>

TipBlockNumber ==
    /\ InCall /\ rpc.method = "get_tip_block_number" /\ rpc.pc = "entry"
    /\ rpc' = Take(Done(ChainRpc_get_tip_block_number(snapshot)))
    /\ UNCHANGED <<snapshot, tx_pool, hvars, bvars>>

\* get_transaction up to the pool's answer
TransactionFetchPool ==
    /\ InCall /\ rpc.method = "get_transaction" /\ rpc.pc = "entry"
    /\ LET answer == ChainRpc_get_transaction(snapshot, tx_pool, rpc.request.hash,
                                              rpc.request.sent)
       IN  rpc' = IF answer.reads = <<"tx_pool">>
                  THEN Done(answer.result)
                  ELSE [rpc EXCEPT !.pc = "or_else"]
    /\ UNCHANGED <<snapshot, tx_pool, hvars, bvars>>

\* the pool had no entry: self.shared.snapshot().get_transaction(&hash)
TransactionAskSnapshot ==
    /\ InCall /\ rpc.method = "get_transaction" /\ rpc.pc = "or_else"
    /\ rpc' = Take(Done(ChainRpc_get_transaction(snapshot, EmptyPool, rpc.request.hash,
                                                 TRUE).result))
    /\ UNCHANGED <<snapshot, tx_pool, hvars, bvars>>

NextSnapshot ==
    \/ SwapSnapshot
    \/ Call
    \/ CellsTakeSnapshot
    \/ CellsScanBlock
    \/ EconomicTakeSnapshot
    \/ EconomicAssemble
    \/ TipBlockNumber
    \/ TransactionFetchPool
    \/ TransactionAskSnapshot

SpecSnapshot == InitSnapshot /\ [][NextSnapshot]_vars

\* C14: under any interleaving of query calls with a writer that replaces the
\* shared snapshot in one step, a call takes the snapshot at most once and makes
\* its chain lookups on that one snapshot: what it returns is what the same call
\* returns on one snapshot that was current at some point during the call.
C14_OneSnapshotPerCall ==
    rpc.method # "none" =>
        /\ rpc.takes <= 1
        /\ rpc.held.some => rpc.held.v \in rpc.seen
        /\ rpc.pc = "done" =>
              /\ \E s \in rpc.seen : rpc.result = WholeCall(s, rpc.request)
              /\ rpc.held.some => rpc.result = WholeCall(rpc.held.v, rpc.request)

\* a scan over blocks 1 .. 2 has returned the cells of the chain it took at
\* entry, the main chain having switched to the other branch during the scan
C14_Witness ==
    /\ rpc.method = "get_cells_by_lock_hash"
    /\ rpc.pc = "done"
    /\ rpc.request.from = 1 /\ rpc.request.to = 2
    /\ rpc.swaps >= 1
    /\ Len(rpc.held.v.chain) >= 3
    /\ rpc.held.v.chain[2] # snapshot.chain[2]
    /\ rpc.result.tag = "Ok"
    /\ rpc.result # WholeCall(snapshot, rpc.request)
    /\ Len(rpc.result.v) >= 2

====
